---- MODULE Spec2Model ----
(***************************************************************************)
(* Supervisor of the three pipeline stages of backend/main.py:             *)
(* sync (mirror), compress (transcode) and upload (publish).               *)
(*                                                                         *)
(* Every stage has three module globals: a threading.Lock, a running flag  *)
(* and a stop-requested flag.  The HTTP handlers (run, stop, reset) and    *)
(* the worker threads started by run are all Python threads, so each read  *)
(* or write of a global is one step and the steps of different threads     *)
(* interleave.  thr is the pool of live threads.                           *)
(*                                                                         *)
(* The reconciliation passes themselves (sftp_sync.sync_once,              *)
(* image_compress, sftp_upload.upload_folder) are modelled on small file   *)
(* trees in the variables mirror, transcode and publish, each under its    *)
(* own specification (MirrorSpec, TranscodeSpec, PublishSpec).             *)
(***************************************************************************)
EXTENDS Integers, FiniteSets, Sequences

\* ---------------------------------------------------------------- bounds
MaxThreads == 2      \* threads (handlers and workers) alive at once
MaxItems == 1        \* entries one pass finds

\* ------------------------------------------------------------- constants
TicksPerSecond == 10 \* the waits sleep in 0.1 s increments

Stages == {"sync", "compress", "upload"}
Threads == 1..MaxThreads
\* The interval a worker reads from the settings, in seconds: 0 runs one
\* pass, a positive interval runs the watch loop.  One second stands for
\* every positive interval (a longer one only lengthens the waits).
Intervals == {0, 1}

VARIABLES lock, running, stopReq, thr, focus, mirror, transcode, publish,
          stored

\* The passes' file trees and counters, and the settings row of the
\* database.
data == <<mirror, transcode, publish, stored>>
\* The supervisor's globals and threads.
supervisor == <<lock, running, stopReq, thr, focus>>

vars == <<lock, running, stopReq, thr, focus, mirror, transcode, publish,
          stored>>

\* The settings row as a worker sees it: ok is false when there is no row
\* or a directory the stage needs is empty; interval is the stage's poll
\* interval.
NoSettings == [ok |-> FALSE, interval |-> 0]
StoredValues == {NoSettings} \cup [ok : {TRUE}, interval : Intervals]

\* The value of a pass variable under a specification that does not run
\* that pass.
NoPass == [phase |-> "off"]

\* A free slot of the thread pool.
Free == [stage |-> "none", pc |-> "none", interval |-> 0,
         items |-> 0, ticks |-> 0, afterPrior |-> FALSE]

Init ==
    /\ lock = [s \in Stages |-> FALSE]
    /\ running = [s \in Stages |-> FALSE]
    /\ stopReq = [s \in Stages |-> FALSE]
    /\ thr = [t \in Threads |-> Free]
    /\ focus \in Stages
    /\ mirror = NoPass
    /\ transcode = NoPass
    /\ publish = NoPass
    /\ stored \in StoredValues

\* ---------------------------------------------------------------- helpers
\* threading.Thread(...).start() / a request handler entering: the new
\* thread takes the lowest free slot.
Spawn(r) ==
    \E t \in Threads :
        /\ thr[t].pc = "none"
        /\ \A u \in Threads : u < t => thr[u].pc # "none"
        /\ thr' = [thr EXCEPT ![t] = r]

\* The thread's function returns (or its exception leaves the thread).
Exit(t) == thr' = [thr EXCEPT ![t] = Free]

\* range(interval * 10)
WaitTicks(iv) == iv * TicksPerSecond

\* ------------------------------------------------- control surface
\* History for the worker a trigger starts: a prior run of the stage has
\* already executed "_running = False" of its finally block and has not yet
\* returned.  The program keeps no such value; the field afterPrior records
\* it until the worker's lock.acquire.
PriorCleared(s) ==
    \E u \in Threads :
        thr[u].stage = s /\ thr[u].pc \in {"fin_stop", "fin_release"}

\* POST /sync/run, /compress/run, /upload/run: 409 when the running flag is
\* set, otherwise start the worker thread and answer "started".
RunTrigger(s) ==
    /\ IF running[s]
       THEN Spawn([Free EXCEPT !.stage = s, !.pc = "run_conflict"])
       ELSE Spawn([Free EXCEPT !.stage = s, !.pc = "load",
                               !.afterPrior = PriorCleared(s)])
    /\ UNCHANGED <<lock, running, stopReq, focus, data>>

\* raise HTTPException(409): the handler answers the conflict and returns.
RunRejected(t) ==
    /\ thr[t].pc = "run_conflict"
    /\ Exit(t)
    /\ UNCHANGED <<lock, running, stopReq, focus, data>>

\* A stop handler without the test of the running flag: it always goes on
\* to set the stop flag.  Not the program; C6 must fail of it.
StopRequestNoCheck(s) ==
    /\ Spawn([Free EXCEPT !.stage = s, !.pc = "stop_set"])
    /\ UNCHANGED <<lock, running, stopReq, focus, data>>

\* POST /sync/stop, /compress/stop, /upload/stop, up to the test of the
\* running flag: 400 when it is clear, otherwise go on to set the stop flag.
StopRequest(s) ==
    /\ IF running[s]
       THEN Spawn([Free EXCEPT !.stage = s, !.pc = "stop_set"])
       ELSE Spawn([Free EXCEPT !.stage = s, !.pc = "stop_err"])
    /\ UNCHANGED <<lock, running, stopReq, focus, data>>

\* raise HTTPException(400): the handler answers the error and returns.
StopRejected(t) ==
    /\ thr[t].pc = "stop_err"
    /\ Exit(t)
    /\ UNCHANGED <<lock, running, stopReq, focus, data>>

\* A stop handler that sets the stop flag of every stage.  Not the
\* program; C23 must fail of it.
StopSetAll(t) ==
    /\ thr[t].pc = "stop_set"
    /\ stopReq' = [s \in Stages |-> TRUE]
    /\ Exit(t)
    /\ UNCHANGED <<lock, running, focus, data>>

\* _stop_requested = True, then the answer "stop_requested".
StopSet(t) ==
    /\ thr[t].pc = "stop_set"
    /\ stopReq' = [stopReq EXCEPT ![thr[t].stage] = TRUE]
    /\ Exit(t)
    /\ UNCHANGED <<lock, running, focus, data>>

\* POST /sync/reset, up to the test lock.locked().  Only the sync stage has
\* this operation.
ResetRequest ==
    /\ IF lock["sync"]
       THEN Spawn([Free EXCEPT !.stage = "sync", !.pc = "reset_release"])
       ELSE Spawn([Free EXCEPT !.stage = "sync", !.pc = "reset_running"])
    /\ UNCHANGED <<lock, running, stopReq, focus, data>>

\* lock.release() inside try/except: releasing a lock that was released in
\* the meantime raises RuntimeError, which is swallowed.
ResetRelease(t) ==
    /\ thr[t].pc = "reset_release"
    /\ lock' = [lock EXCEPT !["sync"] = FALSE]
    /\ thr' = [thr EXCEPT ![t].pc = "reset_running"]
    /\ UNCHANGED <<running, stopReq, focus, data>>

\* _running = False
ResetRunning(t) ==
    /\ thr[t].pc = "reset_running"
    /\ running' = [running EXCEPT !["sync"] = FALSE]
    /\ thr' = [thr EXCEPT ![t].pc = "reset_stop"]
    /\ UNCHANGED <<lock, stopReq, focus, data>>

\* _stop_requested = False, then the answer "reset".
ResetStop(t) ==
    /\ thr[t].pc = "reset_stop"
    /\ stopReq' = [stopReq EXCEPT !["sync"] = FALSE]
    /\ Exit(t)
    /\ UNCHANGED <<lock, running, focus, data>>

\* POST /settings: db.save_settings replaces the settings row.
SaveSettings ==
    /\ \E v \in StoredValues \ {stored} : stored' = v
    /\ UNCHANGED <<supervisor, mirror, transcode, publish>>

\* ------------------------------------------------- worker: start-up
\* db.load_settings() and the configuration tests before the lock: without
\* settings (or, for compress and upload, without the directories) the
\* worker logs and returns; otherwise it keeps the interval it read.
LoadSettings(t) ==
    /\ thr[t].pc = "load"
    /\ IF ~stored.ok
       THEN Exit(t)
       ELSE thr' = [thr EXCEPT ![t].pc = "acquire",
                               ![t].interval = stored.interval]
    /\ UNCHANGED <<lock, running, stopReq, focus, data>>

\* lock.acquire(blocking=False)
Acquire(t) ==
    /\ thr[t].pc = "acquire"
    /\ IF lock[thr[t].stage]
       THEN /\ thr' = [thr EXCEPT ![t].pc = "skip"]
            /\ UNCHANGED lock
       ELSE /\ lock' = [lock EXCEPT ![thr[t].stage] = TRUE]
            /\ thr' = [thr EXCEPT ![t].pc = "set_running",
                                  ![t].afterPrior = FALSE]
    /\ UNCHANGED <<running, stopReq, focus, data>>

\* The lock was busy: log "already running" and return.
SkipReturn(t) ==
    /\ thr[t].pc = "skip"
    /\ Exit(t)
    /\ UNCHANGED <<lock, running, stopReq, focus, data>>

\* _running = True
SetRunning(t) ==
    /\ thr[t].pc = "set_running"
    /\ running' = [running EXCEPT ![thr[t].stage] = TRUE]
    /\ thr' = [thr EXCEPT ![t].pc = "clr_stop"]
    /\ UNCHANGED <<lock, stopReq, focus, data>>

\* Where the body starts: the one-shot branch calls the pass at once, the
\* continuous branch of compress first runs the set-up of
\* watch_and_compress, the other two enter their while loop.
BodyEntry(s, iv) ==
    IF iv = 0 THEN "call"
    ELSE IF s = "compress" THEN "setup" ELSE "head"

\* _stop_requested = False, then the branch on the interval.
ClearStop(t) ==
    /\ thr[t].pc = "clr_stop"
    /\ stopReq' = [stopReq EXCEPT ![thr[t].stage] = FALSE]
    /\ thr' = [thr EXCEPT ![t].pc = BodyEntry(thr[t].stage, thr[t].interval)]
    /\ UNCHANGED <<lock, running, focus, data>>

\* ------------------------------------------------- worker: clean-up
\* except Exception of the worker function: an exception that escaped the
\* body is logged; the finally block follows.
Escaped(t) ==
    /\ thr[t].pc = "escaped"
    /\ thr' = [thr EXCEPT ![t].pc = "fin_running"]
    /\ UNCHANGED <<lock, running, stopReq, focus, data>>

\* finally: _running = False
FinRunning(t) ==
    /\ thr[t].pc = "fin_running"
    /\ running' = [running EXCEPT ![thr[t].stage] = FALSE]
    /\ thr' = [thr EXCEPT ![t].pc = "fin_stop"]
    /\ UNCHANGED <<lock, stopReq, focus, data>>

\* finally: _stop_requested = False
FinStop(t) ==
    /\ thr[t].pc = "fin_stop"
    /\ stopReq' = [stopReq EXCEPT ![thr[t].stage] = FALSE]
    /\ thr' = [thr EXCEPT ![t].pc = "fin_release"]
    /\ UNCHANGED <<lock, running, focus, data>>

\* finally: lock.release().  threading.Lock has no owner: the call frees
\* the lock whoever holds it, and raises RuntimeError, which ends the
\* thread, when the lock is free.
FinRelease(t) ==
    /\ thr[t].pc = "fin_release"
    /\ lock' = [lock EXCEPT ![thr[t].stage] = FALSE]
    /\ Exit(t)
    /\ UNCHANGED <<running, stopReq, focus, data>>

\* A loop head that reads the settings again at every cycle.  Not the
\* program; C25 must fail of it.
SyncLoopHeadReload(t) ==
    /\ thr[t].stage = "sync" /\ thr[t].pc = "head"
    /\ IF stopReq["sync"]
       THEN thr' = [thr EXCEPT ![t].pc = "fin_running"]
       ELSE thr' = [thr EXCEPT ![t].pc = "call",
                               ![t].interval = stored.interval]
    /\ UNCHANGED <<lock, running, stopReq, focus, data>>

\* ------------------------------------------------- sync (mirror) body
\* while not _stop_requested (cycle_count only numbers the log lines)
SyncLoopHead(t) ==
    /\ thr[t].stage = "sync" /\ thr[t].pc = "head"
    /\ IF stopReq["sync"]
       THEN thr' = [thr EXCEPT ![t].pc = "fin_running"]
       ELSE thr' = [thr EXCEPT ![t].pc = "call"]
    /\ UNCHANGED <<lock, running, stopReq, focus, data>>

\* sync_once up to its item loop: the connection or the local listing may
\* raise, otherwise the remote listing has n entries.  The one-shot branch
\* catches the exception and finishes; the continuous branch catches it and
\* sleeps the whole interval in one time.sleep call.
SyncOnceBegin(t) ==
    /\ thr[t].stage = "sync" /\ thr[t].pc = "call"
    /\ \/ IF thr[t].interval = 0
          THEN thr' = [thr EXCEPT ![t].pc = "fin_running"]
          ELSE thr' = [thr EXCEPT ![t].pc = "err_sleep",
                                  ![t].ticks = WaitTicks(thr[t].interval)]
       \/ \E n \in 0..MaxItems :
              thr' = [thr EXCEPT ![t].pc = "item", ![t].items = n]
    /\ UNCHANGED <<lock, running, stopReq, focus, data>>

\* One turn of "for remote_path, attrs in remote_items": should_stop() is
\* main's _check_stop_requested in both modes; a set flag ends the pass, a
\* clear one lets the entry be processed (its own failure is caught).
SyncItem(t) ==
    /\ thr[t].stage = "sync" /\ thr[t].pc = "item"
    /\ IF thr[t].items = 0 \/ stopReq["sync"]
       THEN thr' = [thr EXCEPT ![t].items = 0,
                               ![t].pc = IF thr[t].interval = 0
                                         THEN "fin_running" ELSE "after"]
       ELSE thr' = [thr EXCEPT ![t].items = @ - 1]
    /\ UNCHANGED <<lock, running, stopReq, focus, data>>

\* After a pass that returned: a set stop flag breaks the loop, otherwise
\* the tick wait starts.
SyncAfterPass(t) ==
    /\ thr[t].stage = "sync" /\ thr[t].pc = "after"
    /\ IF stopReq["sync"]
       THEN thr' = [thr EXCEPT ![t].pc = "fin_running"]
       ELSE thr' = [thr EXCEPT ![t].pc = "wait",
                               ![t].ticks = WaitTicks(thr[t].interval)]
    /\ UNCHANGED <<lock, running, stopReq, focus, data>>

\* except Exception inside the loop: time.sleep(interval), one blocking
\* call that reads no flag.  Each step is 0.1 s of it.
SyncErrSleep(t) ==
    /\ thr[t].stage = "sync" /\ thr[t].pc = "err_sleep"
    /\ IF thr[t].ticks > 1
       THEN thr' = [thr EXCEPT ![t].ticks = @ - 1]
       ELSE thr' = [thr EXCEPT ![t].ticks = 0, ![t].pc = "head"]
    /\ UNCHANGED <<lock, running, stopReq, focus, data>>

\* for _ in range(interval * 10): if stop: break; time.sleep(0.1).  The
\* same loop ends a cycle of all three stages; in watch_and_upload it is
\* also the wait for files to appear.
WaitTick(t) ==
    /\ thr[t].pc = "wait"
    /\ IF thr[t].ticks = 0 \/ stopReq[thr[t].stage]
       THEN thr' = [thr EXCEPT ![t].ticks = 0, ![t].pc = "head"]
       ELSE thr' = [thr EXCEPT ![t].ticks = @ - 1]
    /\ UNCHANGED <<lock, running, stopReq, focus, data>>

\* ------------------------------------------- compress (transcode) body
\* One-shot: compress_images_in_folder up to its walk.  A missing input
\* folder returns, a failing mkdir raises into main's inner except; both
\* finish the run.  Otherwise the walk finds n files.
CompressFolderBegin(t) ==
    /\ thr[t].stage = "compress" /\ thr[t].pc = "call"
    /\ \/ thr' = [thr EXCEPT ![t].pc = "fin_running"]
       \/ \E n \in 0..MaxItems :
              thr' = [thr EXCEPT ![t].pc = "item", ![t].items = n]
    /\ UNCHANGED <<lock, running, stopReq, focus, data>>

\* One-shot: one file of the walk.  main passes stop_check=None, so the
\* stop flag is never read here.
CompressFolderItem(t) ==
    /\ thr[t].stage = "compress" /\ thr[t].pc = "item"
    /\ thr[t].interval = 0
    /\ IF thr[t].items = 0
       THEN thr' = [thr EXCEPT ![t].pc = "fin_running"]
       ELSE thr' = [thr EXCEPT ![t].items = @ - 1]
    /\ UNCHANGED <<lock, running, stopReq, focus, data>>

\* Continuous: watch_and_compress before its loop.  A missing input folder
\* returns at once; output_path.mkdir may raise, which no handler of
\* watch_and_compress catches.
WatchCompressSetup(t) ==
    /\ thr[t].stage = "compress" /\ thr[t].pc = "setup"
    /\ \/ thr' = [thr EXCEPT ![t].pc = "fin_running"]
       \/ thr' = [thr EXCEPT ![t].pc = "escaped"]
       \/ thr' = [thr EXCEPT ![t].pc = "head"]
    /\ UNCHANGED <<lock, running, stopReq, focus, data>>

\* while not stop_check(), then os.walk finds n files.
WatchCompressHead(t) ==
    /\ thr[t].stage = "compress" /\ thr[t].pc = "head"
    /\ IF stopReq["compress"]
       THEN thr' = [thr EXCEPT ![t].pc = "fin_running"]
       ELSE \E n \in 0..MaxItems :
                thr' = [thr EXCEPT ![t].pc = "item", ![t].items = n]
    /\ UNCHANGED <<lock, running, stopReq, focus, data>>

\* Continuous: one file of the walk.  A set stop flag breaks out to the end
\* of the cycle.  The freshness test (exists, getmtime) stands outside the
\* try of compress_image: when it raises, the exception leaves
\* watch_and_compress.
WatchCompressItem(t) ==
    /\ thr[t].stage = "compress" /\ thr[t].pc = "item"
    /\ thr[t].interval > 0
    /\ IF thr[t].items = 0 \/ stopReq["compress"]
       THEN thr' = [thr EXCEPT ![t].items = 0, ![t].pc = "wait",
                               ![t].ticks = WaitTicks(thr[t].interval)]
       ELSE \/ thr' = [thr EXCEPT ![t].items = @ - 1]
            \/ thr' = [thr EXCEPT ![t].items = 0, ![t].pc = "escaped"]
    /\ UNCHANGED <<lock, running, stopReq, focus, data>>

\* ---------------------------------------------- upload (publish) body
\* while not stop_check()
WatchUploadHead(t) ==
    /\ thr[t].stage = "upload" /\ thr[t].pc = "head"
    /\ IF stopReq["upload"]
       THEN thr' = [thr EXCEPT ![t].pc = "fin_running"]
       ELSE thr' = [thr EXCEPT ![t].pc = "call"]
    /\ UNCHANGED <<lock, running, stopReq, focus, data>>

\* upload_folder up to its upload loop (in continuous mode after the probe
\* of watch_and_upload): no folder, no file or a failing connection end the
\* pass without an upload; otherwise n >= 1 files were collected.  One-shot
\* finishes the run; continuous mode catches the exception in its loop and
\* goes to the tick wait.
UploadFolderBegin(t) ==
    /\ thr[t].stage = "upload" /\ thr[t].pc = "call"
    /\ \/ IF thr[t].interval = 0
          THEN thr' = [thr EXCEPT ![t].pc = "fin_running"]
          ELSE thr' = [thr EXCEPT ![t].pc = "wait",
                                  ![t].ticks = WaitTicks(thr[t].interval)]
       \/ \E n \in 1..MaxItems :
              thr' = [thr EXCEPT ![t].pc = "item", ![t].items = n]
    /\ UNCHANGED <<lock, running, stopReq, focus, data>>

\* One turn of "for local_file, ... in files_to_upload".  stop_check is the
\* stop flag in continuous mode only: main's one-shot call passes none, and
\* upload_folder then uses lambda: False.
UploadItem(t) ==
    /\ thr[t].stage = "upload" /\ thr[t].pc = "item"
    /\ IF thr[t].items = 0 \/ (thr[t].interval > 0 /\ stopReq["upload"])
       THEN IF thr[t].interval = 0
            THEN thr' = [thr EXCEPT ![t].items = 0, ![t].pc = "fin_running"]
            ELSE thr' = [thr EXCEPT ![t].items = 0, ![t].pc = "wait",
                                    ![t].ticks = WaitTicks(thr[t].interval)]
       ELSE thr' = [thr EXCEPT ![t].items = @ - 1]
    /\ UNCHANGED <<lock, running, stopReq, focus, data>>

\* ------------------------------------------------------ specification
\* One step of thread t.
ThreadStep(t) ==
    \/ RunRejected(t)
    \/ StopRejected(t)
    \/ StopSet(t)
    \/ ResetRelease(t)
    \/ ResetRunning(t)
    \/ ResetStop(t)
    \/ LoadSettings(t)
    \/ Acquire(t)
    \/ SkipReturn(t)
    \/ SetRunning(t)
    \/ ClearStop(t)
    \/ Escaped(t)
    \/ FinRunning(t)
    \/ FinStop(t)
    \/ FinRelease(t)
    \/ SyncLoopHead(t)
    \/ SyncOnceBegin(t)
    \/ SyncItem(t)
    \/ SyncAfterPass(t)
    \/ SyncErrSleep(t)
    \/ WaitTick(t)
    \/ CompressFolderBegin(t)
    \/ CompressFolderItem(t)
    \/ WatchCompressSetup(t)
    \/ WatchCompressHead(t)
    \/ WatchCompressItem(t)
    \/ WatchUploadHead(t)
    \/ UploadFolderBegin(t)
    \/ UploadItem(t)

\* The requests of one behaviour address the stage focus.
Next ==
    \/ RunTrigger(focus)
    \/ StopRequest(focus)
    \/ focus = "sync" /\ ResetRequest
    \/ SaveSettings
    \/ \E t \in Threads : ThreadStep(t)

Spec == Init /\ [][Next]_vars

\* Every live thread keeps being scheduled (the interpreter switches between
\* runnable threads); requests arrive or not.
FairSpec == Spec /\ \A t \in Threads : WF_vars(ThreadStep(t))

\* ------------------------------------------------------------- claims
\* Thread t took a step.
Stepped(t) == thr'[t] # thr[t]

\* pcs of a worker inside a reconciliation pass.
PassPcs == {"call", "item"}

\* pcs of a continuous worker inside its watch loop.
LoopPcs == {"head", "call", "item", "after", "wait", "err_sleep"}

\* pcs of a worker between its lock.acquire and its lock.release.
HeldPcs == {"set_running", "clr_stop", "setup", "escaped",
            "fin_running", "fin_stop", "fin_release"} \cup LoopPcs

\* pcs of a worker waiting between two passes.
WaitPcs == {"wait", "err_sleep"}

InPass(s) == {t \in Threads : thr[t].stage = s /\ thr[t].pc \in PassPcs}

\* C1: for each stage, in every reachable state, at most one worker is
\* executing the stage's reconciliation pass.
C1_OneExecutionPerStage ==
    \A s \in Stages : Cardinality(InPass(s)) <= 1

\* C2: a run trigger is rejected whenever the running flag is set, and a
\* trigger accepted after the prior run cleared its running flag starts an
\* execution: the worker of such a trigger is never turned away at the
\* lock.
C2_AcceptedAfterRunningCleared ==
    [][\A t \in Threads :
          /\ (thr[t].pc = "none" /\ thr'[t].pc \in {"load", "run_conflict"})
                => (running[thr'[t].stage] <=> thr'[t].pc = "run_conflict")
          /\ (thr[t].pc = "acquire" /\ thr'[t].pc = "skip")
                => ~thr[t].afterPrior]_vars

\* C3: no trigger is acknowledged as started without its worker executing
\* the stage: a worker exists only for an acknowledged trigger, and none is
\* ever turned away at the lock (the "already running" return).
C3_NoStartedWithoutExecution ==
    \A t \in Threads : thr[t].pc # "skip"

\* A stop request for s passed its running test (it will be answered
\* stop_requested) while a continuous worker of s holds the lock.
StopAccepted(s) ==
    /\ \E t \in Threads : thr[t].stage = s /\ thr[t].pc = "stop_set"
    /\ \E u \in Threads : /\ thr[u].stage = s
                          /\ thr[u].interval > 0
                          /\ thr[u].pc \in HeldPcs

StageIdle(s) ==
    /\ ~running[s]
    /\ ~lock[s]
    /\ \A t \in Threads : ~(thr[t].stage = s /\ thr[t].pc \in HeldPcs)

\* C4: every accepted stop request for a stage running in continuous mode
\* is eventually followed by the worker having left, with running false and
\* the lock released.
C4_AcceptedStopEndsRun ==
    \A s \in Stages : StopAccepted(s) ~> StageIdle(s)

\* C5: the step that ends a run (the lock.release of its finally block)
\* leaves running false, stopRequested false and the lock free.
C5_RunEndsIdle ==
    [][\A t \in Threads :
          (thr[t].pc = "fin_release" /\ thr'[t].pc = "none")
             => /\ ~running'[thr[t].stage]
                /\ ~stopReq'[thr[t].stage]
                /\ ~lock'[thr[t].stage]]_vars

\* C6: a stop request on a stage whose running flag is false is answered
\* with the error, and neither its arrival nor its answer changes the
\* stage's stopRequested flag, running flag or lock.
C6_StopOnIdleIsError ==
    [][\A t \in Threads :
          /\ (thr[t].pc = "none" /\ thr'[t].pc \in {"stop_set", "stop_err"}
                /\ ~running[thr'[t].stage])
                => thr'[t].pc = "stop_err"
          /\ (Stepped(t) /\ "stop_err" \in {thr[t].pc, thr'[t].pc})
                => UNCHANGED <<lock, running, stopReq>>]_vars

\* C6 witness: a stop request has just been rejected on an idle stage.
C6_Witness ==
    \E t \in Threads : thr[t].pc = "stop_err" /\ ~running[thr[t].stage]

\* C7: a run with interval 0 executes one pass only (from the pass it goes
\* to the clean-up, never to a wait or a second call), and the step that
\* ends it leaves running false and the lock free.
C7_OneShotOnePassThenIdle ==
    [][\A t \in Threads :
          thr[t].interval = 0 =>
             /\ (thr[t].pc \in PassPcs /\ Stepped(t))
                   => /\ thr'[t].pc \in {"item", "fin_running"}
                      /\ thr[t].pc = "item" /\ thr'[t].pc = "item"
                            => thr'[t].items < thr[t].items
             /\ (thr[t].pc = "fin_release" /\ thr'[t].pc = "none")
                   => ~running'[thr[t].stage] /\ ~lock'[thr[t].stage]]_vars

\* C8: in continuous mode a worker leaves its watch loop only when the stop
\* flag is set; no exception raised inside a pass takes it out.
C8_PassErrorKeepsLoop ==
    [][\A t \in Threads :
          (thr[t].interval > 0 /\ thr[t].pc \in LoopPcs /\ Stepped(t)
              /\ thr'[t].pc \notin LoopPcs)
             => stopReq[thr[t].stage]]_vars

\* C9: a worker waiting between passes re-checks the stop flag at every
\* tick: with the flag set, its next tick ends the wait.
C9_WaitEndsWithinOneTick ==
    [][\A t \in Threads :
          (thr[t].pc \in WaitPcs /\ stopReq[thr[t].stage] /\ Stepped(t))
             => thr'[t].pc \notin WaitPcs]_vars

\* C10: in every mode of every stage no item starts while the stage's stop
\* flag is set.
C10_NoItemAfterStop ==
    [][\A t \in Threads :
          (thr[t].pc = "item" /\ thr'[t].pc = "item"
              /\ thr'[t].items < thr[t].items)
             => ~stopReq[thr[t].stage]]_vars

\* ============================================================ mirror pass
\* sftp_sync.sync_once on a small tree: one file in the root, one directory
\* and one file inside it.
MaxChunks == 1       \* largest file size, in chunks of chunk_size

Files == {"a.txt", "sub/b.txt"}
Dirs == {"sub"}
\* The directory a file lies in ("." is the root, which always exists).
Parent(p) == IF p = "sub/b.txt" THEN "sub" ELSE "."

\* Remote times are whole seconds (SFTPAttributes.st_mtime); local times
\* are floats (os.stat_result.st_mtime), here counted in half seconds.
\* One remote time is enough: only its relation to the local time matters.
\* A local time of 3 truncates to it, 4 does not.
RemoteMtimes == {1}
LocalMtimes == {3, 4}
\* The clock when open(target_file, "wb") truncates or a chunk is written:
\* later than every listed time.
WriteTime == 6
Sizes == 0..MaxChunks

\* int(local_stat.st_mtime)
Truncate(m) == m \div 2
\* A stamp that takes the remote seconds for local half seconds.  Not the
\* program; C12 must fail of it.
StampedRaw(s) == s

\* The local time os.utime sets from attrs.st_mtime.
Stamped(s) == s * 2

Absent == [ex |-> FALSE, size |-> 0, mtime |-> 0]
RemoteRecords == {Absent} \cup [ex : {TRUE}, size : Sizes, mtime : RemoteMtimes]
LocalRecords == {Absent} \cup [ex : {TRUE}, size : Sizes, mtime : LocalMtimes]

\* A tree: every file that exists lies in the root or in a directory that
\* exists.
WellFormed(dirs, files) ==
    \A p \in Files : files[p].ex => (Parent(p) = "." \/ Parent(p) \in dirs)

\* A comparison of the untruncated local time.  Not the program; C11 must
\* fail of it.
SameUntruncated(ls, attrs) ==
    ls.ex /\ ls.mtime = attrs.mtime * 2 /\ ls.size = attrs.size

\* A comparison of the times alone.  Not the program; C33 must fail of
\* it.
SameMtimeOnly(ls, attrs) ==
    ls.ex /\ Truncate(ls.mtime) = attrs.mtime

\* if local_mtime == remote_mtime and local_stat.st_size == attrs.st_size
SameAsRemote(ls, attrs) ==
    ls.ex /\ Truncate(ls.mtime) = attrs.mtime /\ ls.size = attrs.size

\* _list_remote: the entries of a directory with every subdirectory
\* followed by its own listing; a directory whose listing raises
\* contributes nothing (the exception is caught per directory).
ListSub(rfiles) ==
    IF rfiles["sub/b.txt"].ex THEN {<<>>, <<"sub/b.txt">>} ELSE {<<>>}

\* A listing that reports what a directory holds before the directory
\* itself.  Not the program; C30 must fail of it.
ListRemoteChildFirst(rdirs, rfiles) ==
    LET top == IF rfiles["a.txt"].ex THEN <<"a.txt">> ELSE <<>>
        subs == IF "sub" \in rdirs
                THEN {s \o <<"sub">> : s \in ListSub(rfiles)}
                ELSE {<<>>}
    IN  {<<>>} \cup {top \o s : s \in subs} \cup {s \o top : s \in subs}

\* A listing in which a failure below "sub" also loses what the parent
\* would have listed after it.  Not the program; C29 must fail of it.
ListRemoteDropping(rdirs, rfiles) ==
    LET top == IF rfiles["a.txt"].ex THEN <<"a.txt">> ELSE <<>>
        subs == IF "sub" \in rdirs
                THEN {<<"sub">> \o s : s \in ListSub(rfiles)}
                ELSE {<<>>}
    IN  {<<>>} \cup {top \o s : s \in subs}
               \cup {s \o top : s \in subs \ {<<"sub">>}}
               \cup (subs \cap {<<"sub">>})

ListRemote(rdirs, rfiles) ==
    LET top == IF rfiles["a.txt"].ex THEN <<"a.txt">> ELSE <<>>
        subs == IF "sub" \in rdirs
                THEN {<<"sub">> \o s : s \in ListSub(rfiles)}
                ELSE {<<>>}
    IN  {<<>>} \cup {top \o s : s \in subs} \cup {s \o top : s \in subs}

\* Number of entries of the remote tree.
RemoteCount(rdirs, rfiles) ==
    Cardinality(rdirs) + Cardinality({p \in Files : rfiles[p].ex})

\* The mirror variable between passes.
MirrorIdle(rdirs, rfiles, ldirs, lfiles) ==
    [phase |-> "idle", rdirs |-> rdirs, rfiles |-> rfiles,
     ldirs |-> ldirs, lfiles |-> lfiles,
     items |-> <<>>, index |-> lfiles, idx |-> 1,
     copied |-> 0, skipped |-> 0, dirs_created |-> 0,
     copies |-> [p \in Files |-> 0], skips |-> [p \in Files |-> 0],
     raised |-> FALSE, stopSeen |-> FALSE, failed |-> FALSE,
     fullList |-> FALSE, prevRan |-> FALSE, prevClean |-> FALSE,
     changed |-> FALSE]

MirrorInit ==
    /\ lock = [s \in Stages |-> FALSE]
    /\ running = [s \in Stages |-> FALSE]
    /\ stopReq = [s \in Stages |-> FALSE]
    /\ thr = [t \in Threads |-> Free]
    /\ focus = "sync"
    /\ transcode = NoPass
    /\ publish = NoPass
    /\ stored = NoSettings
    /\ \E rdirs \in SUBSET Dirs, ldirs \in SUBSET Dirs :
       \E rfiles \in [Files -> RemoteRecords], lfiles \in [Files -> LocalRecords] :
          /\ WellFormed(rdirs, rfiles)
          /\ WellFormed(ldirs, lfiles)
          /\ mirror = MirrorIdle(rdirs, rfiles, ldirs, lfiles)

\* What a mirror action leaves alone besides the stop flag.
mirrorFrame == <<lock, running, thr, focus, transcode, publish, stored>>

\* sync_once up to the item loop: connect (an exception here leaves
\* sync_once), list the remote tree, index the local files, zero the
\* counters.  A pass starts only while the stop flag is clear (the
\* supervisor cleared it or tested it at the loop head).
SyncOnceList ==
    /\ mirror.phase = "idle"
    /\ ~stopReq["sync"]
    /\ \/ mirror' = [mirror EXCEPT !.phase = "return", !.raised = TRUE,
                                   !.items = <<>>, !.idx = 1,
                                   !.copied = 0, !.skipped = 0,
                                   !.dirs_created = 0,
                                   !.copies = [p \in Files |-> 0],
                                   !.skips = [p \in Files |-> 0],
                                   !.stopSeen = FALSE, !.failed = FALSE,
                                   !.fullList = FALSE]
       \/ \E l \in ListRemote(mirror.rdirs, mirror.rfiles) :
             mirror' = [mirror EXCEPT
                           !.phase = "item", !.raised = FALSE,
                           !.items = l, !.index = mirror.lfiles, !.idx = 1,
                           !.copied = 0, !.skipped = 0, !.dirs_created = 0,
                           !.copies = [p \in Files |-> 0],
                           !.skips = [p \in Files |-> 0],
                           !.stopSeen = FALSE, !.failed = FALSE,
                           !.fullList =
                               (Len(l) = RemoteCount(mirror.rdirs,
                                                     mirror.rfiles))]
    /\ UNCHANGED <<stopReq, mirrorFrame>>

\* except Exception inside the item loop: the error is logged and the loop
\* goes on with the next entry; no counter records it.
ItemError(m) == [m EXCEPT !.failed = TRUE, !.idx = @ + 1, !.phase = "item"]

\* A mkdir that drops every other directory.  Not the program; C16 must
\* fail of it.
OnlyDir(ldirs, d) == IF d = "." THEN {} ELSE {d}

\* The local directories after mkdir(parents=True, exist_ok=True) of d.
WithDir(ldirs, d) == IF d = "." THEN ldirs ELSE ldirs \cup {d}

\* One turn of "for remote_path, attrs in remote_items" up to the decision
\* to copy: the stop check between items, a directory entry, or a file
\* entry compared with the local index.
SyncEntry ==
    /\ mirror.phase = "item"
    /\ IF mirror.idx > Len(mirror.items)
       THEN mirror' = [mirror EXCEPT !.phase = "return"]
       ELSE IF stopReq["sync"]
       THEN mirror' = [mirror EXCEPT !.phase = "return", !.stopSeen = TRUE]
       ELSE LET p == mirror.items[mirror.idx] IN
            IF p \in Dirs
            THEN IF p \in mirror.ldirs
                 THEN mirror' = [mirror EXCEPT !.idx = @ + 1]
                 ELSE \/ mirror' = [mirror EXCEPT !.ldirs = @ \cup {p},
                                                  !.dirs_created = @ + 1,
                                                  !.idx = @ + 1]
                      \/ mirror' = ItemError(mirror)
            ELSE \/ /\ Parent(p) \notin mirror.ldirs \cup {"."}
                    /\ mirror' = ItemError(mirror)
                 \/ IF SameAsRemote(mirror.index[p], mirror.rfiles[p])
                    THEN mirror' = [mirror EXCEPT
                                       !.ldirs = WithDir(@, Parent(p)),
                                       !.skipped = @ + 1,
                                       !.skips[p] = @ + 1,
                                       !.idx = @ + 1]
                    ELSE mirror' = [mirror EXCEPT
                                       !.ldirs = WithDir(@, Parent(p)),
                                       !.phase = "precopy"]
    /\ UNCHANGED <<stopReq, mirrorFrame>>

\* The stop check before the copy, then sftp.open and open(target, "wb"):
\* the local file is created or truncated.
SyncOpen ==
    /\ mirror.phase = "precopy"
    /\ IF stopReq["sync"]
       THEN mirror' = [mirror EXCEPT !.phase = "return", !.stopSeen = TRUE]
       ELSE LET p == mirror.items[mirror.idx] IN
            \/ mirror' = ItemError(mirror)
            \/ mirror' = [mirror EXCEPT
                             !.lfiles[p] = [ex |-> TRUE, size |-> 0,
                                            mtime |-> WriteTime],
                             !.phase = "chunk"]
    /\ UNCHANGED <<stopReq, mirrorFrame>>

\* One turn of the chunk loop: the stop check (break out of the chunk loop
\* only), the end of the remote file, a failed read, or one chunk written.
SyncChunk ==
    /\ mirror.phase = "chunk"
    /\ LET p == mirror.items[mirror.idx] IN
       IF stopReq["sync"]
       THEN mirror' = [mirror EXCEPT !.phase = "stamp", !.stopSeen = TRUE]
       ELSE IF mirror.lfiles[p].size = mirror.rfiles[p].size
       THEN mirror' = [mirror EXCEPT !.phase = "stamp"]
       ELSE \/ mirror' = ItemError(mirror)
            \/ mirror' = [mirror EXCEPT !.lfiles[p].size = @ + 1]
    /\ UNCHANGED <<stopReq, mirrorFrame>>

\* The end of a copy without os.utime.  Not the program; C13 must fail of
\* it.
SyncStampNoUtime ==
    /\ mirror.phase = "stamp"
    /\ LET p == mirror.items[mirror.idx] IN
       mirror' = [mirror EXCEPT !.copied = @ + 1, !.copies[p] = @ + 1,
                                !.idx = @ + 1, !.phase = "item"]
    /\ UNCHANGED <<stopReq, mirrorFrame>>

\* After the chunk loop, however it ended: os.utime(target_file, ...),
\* copied += 1.
SyncStamp ==
    /\ mirror.phase = "stamp"
    /\ LET p == mirror.items[mirror.idx] IN
       \/ mirror' = ItemError(mirror)
       \/ mirror' = [mirror EXCEPT
                        !.lfiles[p].mtime = Stamped(mirror.rfiles[p].mtime),
                        !.copied = @ + 1,
                        !.copies[p] = @ + 1,
                        !.idx = @ + 1,
                        !.phase = "item"]
    /\ UNCHANGED <<stopReq, mirrorFrame>>

\* sync_once returns {copied, skipped} or raises to _run_sync; before the
\* next pass the stop flag is clear again (the loop head saw it clear, or
\* the run ended and its finally block cleared it).
SyncOnceReturn ==
    /\ mirror.phase = "return"
    /\ mirror' = [mirror EXCEPT
                     !.phase = "idle",
                     !.prevRan = TRUE,
                     !.prevClean = /\ ~mirror.raised
                                   /\ mirror.fullList
                                   /\ ~mirror.stopSeen
                                   /\ ~mirror.failed,
                     !.changed = FALSE]
    /\ stopReq' = [stopReq EXCEPT !["sync"] = FALSE]
    /\ UNCHANGED mirrorFrame

\* stop_sync sets _stop_requested while the pass is running.
SyncStopArrives ==
    /\ mirror.phase \in {"item", "precopy", "chunk", "stamp"}
    /\ ~stopReq["sync"]
    /\ stopReq' = [stopReq EXCEPT !["sync"] = TRUE]
    /\ UNCHANGED <<mirror, mirrorFrame>>

\* reset_sync_lock clears _stop_requested while the pass is running.
SyncStopCleared ==
    /\ mirror.phase \in {"item", "precopy", "chunk", "stamp"}
    /\ stopReq["sync"]
    /\ stopReq' = [stopReq EXCEPT !["sync"] = FALSE]
    /\ UNCHANGED <<mirror, mirrorFrame>>

\* Between two passes an entry disappears from the remote tree (a file, or
\* the directory with what it holds).
RemoteEntryRemoved ==
    /\ mirror.phase = "idle"
    /\ \/ \E p \in Files :
             /\ mirror.rfiles[p].ex
             /\ mirror' = [mirror EXCEPT !.rfiles[p] = Absent,
                                         !.changed = TRUE]
       \/ /\ "sub" \in mirror.rdirs
          /\ mirror' = [mirror EXCEPT !.rdirs = @ \ {"sub"},
                                      !.rfiles["sub/b.txt"] = Absent,
                                      !.changed = TRUE]
    /\ UNCHANGED <<stopReq, mirrorFrame>>

MirrorNext ==
    \/ SyncOnceList
    \/ SyncEntry
    \/ SyncOpen
    \/ SyncChunk
    \/ SyncStamp
    \/ SyncOnceReturn
    \/ SyncStopArrives
    \/ SyncStopCleared
    \/ RemoteEntryRemoved

MirrorSpec == MirrorInit /\ [][MirrorNext]_vars

\* ------------------------------------------------- claims on the mirror
\* The entries the current pass listed.
Listed == {mirror.items[i] : i \in 1..Len(mirror.items)}

\* p had, when the pass indexed the local tree, the size and the
\* integer-truncated mtime of the remote file.
SameAtStart(p) ==
    /\ mirror.rfiles[p].ex
    /\ mirror.index[p].ex
    /\ mirror.index[p].mtime \div 2 = mirror.rfiles[p].mtime
    /\ mirror.index[p].size = mirror.rfiles[p].size

\* The pass went through its whole listing: it connected, no checkpoint
\* saw a stop, and it is about to return.
WentThrough ==
    mirror.phase = "return" /\ ~mirror.raised /\ ~mirror.stopSeen

\* C11: a local file that has the remote file's size and integer-truncated
\* mtime when the pass starts is not written and keeps its size and mtime
\* in every step of the pass, is counted in skipped by the step that
\* examines it (skipped grows by one), never twice, and a pass that went
\* through a listing holding it has counted it exactly once.
C11_SameFileUntouchedAndSkipped ==
    [][\A p \in Files :
          (mirror.phase \in {"item", "precopy", "chunk", "stamp"}
              /\ SameAtStart(p))
             => /\ mirror'.lfiles[p] = mirror.lfiles[p]
                /\ mirror'.skips[p] <= 1
                /\ mirror'.skips[p] # mirror.skips[p]
                      => mirror'.skipped = mirror.skipped + 1
                /\ (mirror'.phase = "return" /\ ~mirror'.stopSeen
                       /\ p \in Listed)
                      => mirror'.skips[p] = 1]_vars

\* C11 witness: a pass went through and skipped a file whose local time has
\* a fraction (it equals the remote time only after truncation).
C11_Witness ==
    /\ WentThrough
    /\ \E p \in Files :
          /\ SameAtStart(p)
          /\ mirror.index[p].mtime # mirror.rfiles[p].mtime * 2
          /\ mirror.skips[p] = 1
          /\ mirror.skipped >= 1

\* The pass went through its listing and no entry failed.
CleanPass == WentThrough /\ ~mirror.failed

\* C12 as stated: after a pass that was not stopped and had no item
\* failure, every remote file that was absent locally has been copied
\* exactly once and exists with the remote mtime, every remote directory
\* exists locally, and copied is the number of remote files that were
\* absent locally.
C12_AbsentFilesCopied ==
    CleanPass =>
       /\ \A p \in Files :
             (mirror.rfiles[p].ex /\ ~mirror.index[p].ex)
                => /\ mirror.copies[p] = 1
                   /\ mirror.lfiles[p].ex
                   /\ mirror.lfiles[p].mtime \div 2 = mirror.rfiles[p].mtime
       /\ mirror.rdirs \subseteq mirror.ldirs
       /\ mirror.copied =
             Cardinality({p \in Files :
                             mirror.rfiles[p].ex /\ ~mirror.index[p].ex})

\* C12 amended: after a pass that was not stopped and had no item failure,
\* every listed remote file that was absent locally or differed from its
\* local counterpart in size or truncated mtime has been copied exactly
\* once and exists with the remote size and mtime, every listed remote
\* directory exists locally, and copied is the number of those files.
C12_ListedChangedFilesCopied ==
    CleanPass =>
       /\ \A p \in Listed \cap Files :
             IF SameAtStart(p)
             THEN mirror.copies[p] = 0
             ELSE /\ mirror.copies[p] = 1
                  /\ mirror.lfiles[p].ex
                  /\ mirror.lfiles[p].size = mirror.rfiles[p].size
                  /\ mirror.lfiles[p].mtime \div 2 = mirror.rfiles[p].mtime
       /\ Listed \cap Dirs \subseteq mirror.ldirs
       /\ mirror.copied =
             Cardinality({p \in Listed \cap Files : ~SameAtStart(p)})

\* C12 witness: a clean pass over the whole tree copied a file into a
\* directory it had to create, and also one that existed locally with
\* another size or time.
C12_Witness ==
    /\ CleanPass
    /\ mirror.fullList
    /\ mirror.dirs_created = 1
    /\ mirror.copied = 2
    /\ ~mirror.index["sub/b.txt"].ex
    /\ mirror.index["a.txt"].ex

\* The current pass follows another pass with no change of the remote tree
\* in between.
SecondRun == mirror.phase # "idle" /\ mirror.prevRan /\ ~mirror.changed

\* C13 as stated: a pass that follows another pass, with no remote change
\* in between, copies nothing, whatever the outcome of the first pass.
C13_SecondRunCopiesNothing ==
    SecondRun => mirror.copied = 0

\* C13 amended: a pass that follows a pass which listed the whole remote
\* tree, was not stopped and had no item failure, with no remote change in
\* between, copies nothing.
C13_SecondRunAfterCleanRunCopiesNothing ==
    (SecondRun /\ mirror.prevClean) => mirror.copied = 0

\* C13 witness: the second pass went through and skipped a file that the
\* first pass had copied (its local time is the stamped remote time).
C13_Witness ==
    /\ SecondRun
    /\ mirror.prevClean
    /\ WentThrough
    /\ mirror.fullList
    /\ \E p \in Files :
          /\ mirror.skips[p] = 1
          /\ mirror.lfiles[p].mtime = mirror.rfiles[p].mtime * 2

\* C14: once a checkpoint of the pass has observed the stop, the rest of
\* that pass writes no chunk (no local file changes its size or comes into
\* being), creates no directory and skips no file; the only copy it may
\* still count is the one in progress when the stop was observed.
C14_ObservedStopHaltsPass ==
    [][(mirror.phase # "off" /\ mirror.stopSeen /\ mirror'.stopSeen) =>
          /\ mirror'.ldirs = mirror.ldirs
          /\ mirror'.dirs_created = mirror.dirs_created
          /\ mirror'.skipped = mirror.skipped
          /\ \A p \in Files :
                /\ mirror'.lfiles[p].ex = mirror.lfiles[p].ex
                /\ mirror'.lfiles[p].size = mirror.lfiles[p].size
          /\ mirror'.copied # mirror.copied => mirror.phase = "stamp"
          /\ mirror.phase = "item" => mirror'.phase \in {"item", "return"}]_vars

\* C15: the step in which an entry of the listing fails is recorded by a
\* counter of the pass, and the pass goes on with the next entry.
C15_ItemFailureCountedAndPassed ==
    [][(mirror.phase # "off" /\ ~mirror.failed /\ mirror'.failed) =>
          /\ <<mirror'.copied, mirror'.skipped, mirror'.dirs_created>>
                # <<mirror.copied, mirror.skipped, mirror.dirs_created>>
          /\ mirror'.phase = "item"
          /\ mirror'.idx = mirror.idx + 1]_vars

\* The local paths: directories and files that exist.
LocalPaths(m) == m.ldirs \cup {p \in Files : m.lfiles[p].ex}

\* C16: no step of any pass removes a local file or directory, whatever
\* has disappeared from the remote tree.
C16_LocalPathsNeverShrink ==
    [][mirror.phase # "off" =>
          LocalPaths(mirror) \subseteq LocalPaths(mirror')]_vars

\* C16 witness: a pass went through the whole remote tree after an entry
\* had disappeared from it, and the local tree still holds a file and a
\* directory that the remote tree lacks.
C16_Witness ==
    /\ WentThrough
    /\ mirror.fullList
    /\ mirror.changed
    /\ mirror.prevRan
    /\ "sub" \in mirror.ldirs \ mirror.rdirs
    /\ mirror.lfiles["sub/b.txt"].ex

\* ========================================================= transcode pass
\* image_compress.compress_images_in_folder (one-shot) and
\* image_compress.watch_and_compress (continuous) on one input folder.
MaxCycles == 2       \* cycles of one watch_and_compress call

Inputs == <<"note.txt", "photo.png", "scan.PNG">>
InputNames == {Inputs[i] : i \in 1..Len(Inputs)}

\* Relative paths of files an input folder may hold, split the way
\* pathlib does: the directory part, and the final component as stem and
\* suffix (the suffix starts at the last dot that is not the component's
\* first character).
PathNames == {"note.txt", "photo.png", "scan.PNG", "photo.jpg",
              "d/photo.png", "a.tar.png", ".png", "raw", "pic.jpeg"}

PathParts(f) ==
    CASE f = "note.txt"    -> [dir |-> "", stem |-> "note", suffix |-> ".txt"]
      [] f = "photo.png"   -> [dir |-> "", stem |-> "photo", suffix |-> ".png"]
      [] f = "scan.PNG"    -> [dir |-> "", stem |-> "scan", suffix |-> ".PNG"]
      [] f = "photo.jpg"   -> [dir |-> "", stem |-> "photo", suffix |-> ".jpg"]
      [] f = "d/photo.png" -> [dir |-> "d/", stem |-> "photo", suffix |-> ".png"]
      [] f = "a.tar.png"   -> [dir |-> "", stem |-> "a.tar", suffix |-> ".png"]
      [] f = ".png"        -> [dir |-> "", stem |-> ".png", suffix |-> ""]
      [] f = "raw"         -> [dir |-> "", stem |-> "raw", suffix |-> ""]
      [] f = "pic.jpeg"    -> [dir |-> "", stem |-> "pic", suffix |-> ".jpeg"]

\* str.lower() on the suffixes above.
Lower(s) == IF s = ".PNG" THEN ".png" ELSE s

\* Path(file_path).suffix.lower()
SuffixLower(f) == Lower(PathParts(f).suffix)

IMAGE_EXTENSIONS == {".jpg", ".jpeg", ".png", ".webp", ".bmp", ".tiff", ".tif"}

is_image_file(f) == SuffixLower(f) \in IMAGE_EXTENSIONS

\* An output path that keeps the input's name.  Not the program; C31
\* must fail of it.
OutputKeepsName(f) ==
    PathParts(f).dir \o PathParts(f).stem \o PathParts(f).suffix

\* Path(output_file).with_suffix('.jpg'), relative to the output folder:
\* os.path.join(output_dir, rel_path) keeps the directory part, and
\* with_suffix puts ".jpg" in the place of the suffix.
OutputOf(f) == PathParts(f).dir \o PathParts(f).stem \o ".jpg"
OutputNames == {OutputOf(f) : f \in InputNames}

Mtimes == {1, 2}
\* The clock when img.save writes an output: not before any listed time.
EncodeTime == 3

\* A file of the input or output folder: whether it exists, its mtime and
\* what it holds.  An input holds "old" (what was there when the run
\* started), "partial" (a copy of the mirror stage under way) or "new"
\* (the finished copy); an output holds the picture of the input content
\* it was encoded from.
NoFile == [ex |-> FALSE, mtime |-> 0, content |-> "none"]
FileStates == {NoFile} \cup [ex : {TRUE}, mtime : Mtimes, content : {"old"}]

\* A freshness test that demands a strictly newer output.  Not the
\* program; C17 must fail of it.
FreshStrict(inp, out) == out.ex /\ out.mtime > inp.mtime

\* if output_jpeg.exists(): ... if output_mtime >= input_mtime
Fresh(inp, out) == out.ex /\ out.mtime >= inp.mtime

ZeroStats == [total_files |-> 0, compressed_files |-> 0,
              skipped_files |-> 0, error_files |-> 0]

\* The files os.walk reports, in directory order.
RECURSIVE Walk(_, _)
Walk(files, i) ==
    IF i > Len(Inputs) THEN <<>>
    ELSE (IF files[Inputs[i]].ex THEN <<Inputs[i]>> ELSE <<>>)
         \o Walk(files, i + 1)

TranscodeInit ==
    /\ lock = [s \in Stages |-> FALSE]
    /\ running = [s \in Stages |-> FALSE]
    /\ stopReq = [s \in Stages |-> FALSE]
    /\ thr = [t \in Threads |-> Free]
    /\ focus = "compress"
    /\ mirror = NoPass
    /\ publish = NoPass
    /\ stored = NoSettings
    /\ \E mode \in {"once", "watch"}, hasInput \in BOOLEAN :
       \E ins \in [InputNames -> FileStates], outs \in [OutputNames -> FileStates] :
          /\ ~outs["note.jpg"].ex
          /\ ~hasInput => \A f \in InputNames : ~ins[f].ex
          /\ transcode = [phase |-> "idle", mode |-> mode,
                          hasInput |-> hasInput,
                          inputs |-> ins, outputs |-> outs,
                          walk |-> <<>>, idx |-> 1, cycle |-> 0,
                          stats |-> ZeroStats, cycle_skipped |-> 0,
                          encoded |-> {}, skips |-> 0]

\* What a transcode action leaves alone besides the stop flag.
transcodeFrame == <<lock, running, thr, focus, mirror, publish, stored>>

\* try: compress_image(...) / except: the encoder is called on f; it
\* writes the output and counts a compressed file, or raises (always when
\* the input is gone) and counts an error.
Encode(tr, f) ==
    LET called == [tr EXCEPT !.encoded = @ \cup {f}, !.idx = @ + 1]
        okay == [called EXCEPT
                    !.outputs[OutputOf(f)] =
                        [ex |-> TRUE, mtime |-> EncodeTime,
                         content |-> tr.inputs[f].content],
                    !.stats.compressed_files = @ + 1]
        bad == [called EXCEPT !.stats.error_files = @ + 1]
    IN  IF tr.inputs[f].ex THEN {okay, bad} ELSE {bad}

\* compress_images_in_folder up to the walk: a missing input folder
\* returns zero stats, otherwise the output folder is made and the walk
\* starts.
CompressOnceBegin ==
    /\ transcode.phase = "idle"
    /\ transcode.mode = "once"
    /\ IF ~transcode.hasInput
       THEN transcode' = [transcode EXCEPT !.phase = "returned"]
       ELSE transcode' = [transcode EXCEPT
                             !.phase = "file",
                             !.walk = Walk(transcode.inputs, 1),
                             !.idx = 1]
    /\ UNCHANGED <<stopReq, transcodeFrame>>

\* One file of the one-shot walk (stop_check is None: no stop test): other
\* files are passed over, every image is counted and encoded.
CompressOnceFile ==
    /\ transcode.phase = "file"
    /\ transcode.mode = "once"
    /\ IF transcode.idx > Len(transcode.walk)
       THEN transcode' = [transcode EXCEPT !.phase = "returned"]
       ELSE LET f == transcode.walk[transcode.idx] IN
            IF ~is_image_file(f)
            THEN transcode' = [transcode EXCEPT !.idx = @ + 1]
            ELSE transcode' \in
                   Encode([transcode EXCEPT !.stats.total_files = @ + 1], f)
    /\ UNCHANGED <<stopReq, transcodeFrame>>

\* watch_and_compress up to its loop.
WatchBegin ==
    /\ transcode.phase = "idle"
    /\ transcode.mode = "watch"
    /\ IF ~transcode.hasInput
       THEN transcode' = [transcode EXCEPT !.phase = "returned"]
       ELSE transcode' = [transcode EXCEPT !.phase = "head"]
    /\ UNCHANGED <<stopReq, transcodeFrame>>

\* while not stop_check(): a new cycle starts its walk, or the function
\* returns total_stats.
WatchCycleBegin ==
    /\ transcode.phase = "head"
    /\ IF stopReq["compress"]
       THEN transcode' = [transcode EXCEPT !.phase = "returned"]
       ELSE /\ transcode.cycle < MaxCycles
            /\ transcode' = [transcode EXCEPT
                                !.phase = "file",
                                !.cycle = @ + 1,
                                !.cycle_skipped = 0,
                                !.encoded = {},
                                !.walk = Walk(transcode.inputs, 1),
                                !.idx = 1]
    /\ UNCHANGED <<stopReq, transcodeFrame>>

\* One file of a watch cycle: the stop test, the extension test, the
\* freshness test (os.path.getmtime outside the try: it raises out of
\* watch_and_compress when the input is gone), then the encoder.
WatchFile ==
    /\ transcode.phase = "file"
    /\ transcode.mode = "watch"
    /\ IF transcode.idx > Len(transcode.walk) \/ stopReq["compress"]
       THEN transcode' = [transcode EXCEPT !.phase = "fold"]
       ELSE LET f == transcode.walk[transcode.idx]
                out == transcode.outputs[OutputOf(f)]
            IN  IF ~is_image_file(f)
                THEN transcode' = [transcode EXCEPT !.idx = @ + 1]
                ELSE IF out.ex /\ ~transcode.inputs[f].ex
                THEN transcode' = [transcode EXCEPT !.phase = "escaped"]
                ELSE IF Fresh(transcode.inputs[f], out)
                THEN transcode' = [transcode EXCEPT
                                      !.cycle_skipped = @ + 1,
                                      !.skips = @ + 1,
                                      !.idx = @ + 1]
                ELSE transcode' \in Encode(transcode, f)
    /\ UNCHANGED <<stopReq, transcodeFrame>>

\* total_stats['skipped_files'] += cycle_skipped, then the wait.
WatchCycleEnd ==
    /\ transcode.phase = "fold"
    /\ transcode' = [transcode EXCEPT
                        !.stats.skipped_files = @ + transcode.cycle_skipped,
                        !.phase = "head"]
    /\ UNCHANGED <<stopReq, transcodeFrame>>

\* stop_compress sets _compress_stop_requested while the pass runs.
TranscodeStopArrives ==
    /\ transcode.phase \in {"head", "file", "fold"}
    /\ ~stopReq["compress"]
    /\ stopReq' = [stopReq EXCEPT !["compress"] = TRUE]
    /\ UNCHANGED <<transcode, transcodeFrame>>

\* A file leaves the input folder while a walk is under way.
InputRemoved ==
    /\ transcode.phase = "file"
    /\ \E f \in InputNames :
          /\ transcode.inputs[f].ex
          /\ transcode' = [transcode EXCEPT !.inputs[f] = NoFile]
    /\ UNCHANGED <<stopReq, transcodeFrame>>

\* Between two cycles a file of the input folder is rewritten.
InputTouched ==
    /\ transcode.phase = "head"
    /\ \E f \in InputNames :
          /\ transcode.inputs[f].ex
          /\ transcode.inputs[f].mtime < EncodeTime
          /\ transcode' = [transcode EXCEPT !.inputs[f].mtime = EncodeTime]
    /\ UNCHANGED <<stopReq, transcodeFrame>>

TranscodeNext ==
    \/ CompressOnceBegin
    \/ CompressOnceFile
    \/ WatchBegin
    \/ WatchCycleBegin
    \/ WatchFile
    \/ WatchCycleEnd
    \/ TranscodeStopArrives
    \/ InputRemoved
    \/ InputTouched

TranscodeSpec == TranscodeInit /\ [][TranscodeNext]_vars

\* ------------------------------------- the mirror feeding the transcode
\* sync_once starts the copy of a new or changed remote file into the
\* input folder between two watch cycles: open(target_file, "wb")
\* truncates or creates the file, whose mtime is the clock.
MirrorOpensInput ==
    /\ transcode.phase = "head"
    /\ \E f \in InputNames :
          /\ is_image_file(f)
          /\ transcode.inputs[f].content \in {"none", "old"}
          /\ transcode' = [transcode EXCEPT
                              !.inputs[f] = [ex |-> TRUE,
                                             mtime |-> EncodeTime,
                                             content |-> "partial"]]
    /\ UNCHANGED <<stopReq, transcodeFrame>>

\* sync_once ends the copy between two watch cycles: the last chunk is
\* written and os.utime sets the file's mtime to the remote one.
MirrorStampsInput ==
    /\ transcode.phase = "head"
    /\ \E f \in InputNames, r \in Mtimes :
          /\ transcode.inputs[f].content = "partial"
          /\ transcode' = [transcode EXCEPT
                              !.inputs[f] = [ex |-> TRUE, mtime |-> r,
                                             content |-> "new"]]
    /\ UNCHANGED <<stopReq, transcodeFrame>>

\* ------------------------------------- inputs stamped ahead of the clock
\* A remote mtime later than the clock of this machine.
AheadTime == 4

\* Before the watch run starts, sync_once finishes the copy of a file
\* whose remote mtime is ahead of the local clock: os.utime gives the
\* local file that mtime.
InputStampedAhead ==
    /\ transcode.phase = "idle"
    /\ transcode.mode = "watch"
    /\ \E f \in InputNames :
          /\ is_image_file(f)
          /\ transcode.inputs[f].ex
          /\ transcode.inputs[f].mtime < AheadTime
          /\ transcode' = [transcode EXCEPT !.inputs[f].mtime = AheadTime]
    /\ UNCHANGED <<stopReq, transcodeFrame>>

\* A watch run over an input tree that does not change once the run has
\* started.
FixpointNext ==
    \/ InputStampedAhead
    \/ WatchBegin
    \/ WatchCycleBegin
    \/ WatchFile
    \/ WatchCycleEnd
    \/ TranscodeStopArrives

FixpointSpec == TranscodeInit /\ [][FixpointNext]_vars

PipelineNext ==
    \/ CompressOnceBegin
    \/ CompressOnceFile
    \/ WatchBegin
    \/ WatchCycleBegin
    \/ WatchFile
    \/ WatchCycleEnd
    \/ TranscodeStopArrives
    \/ InputRemoved
    \/ InputTouched
    \/ MirrorOpensInput
    \/ MirrorStampsInput

PipelineSpec == TranscodeInit /\ [][PipelineNext]_vars

\* --------------------------------------------- claims on the transcode
\* The step examines the image f of the walk (and is not a step of the
\* environment).
Examines(f) ==
    /\ transcode.phase = "file"
    /\ transcode.idx <= Len(transcode.walk)
    /\ transcode.walk[transcode.idx] = f
    /\ SuffixLower(f) \in IMAGE_EXTENSIONS
    /\ transcode.mode = "watch" => ~stopReq["compress"]
    /\ transcode'.idx = transcode.idx + 1

\* The output of f exists and is not older than f.
UpToDate(f) ==
    /\ transcode.inputs[f].ex
    /\ transcode.outputs[OutputOf(f)].ex
    /\ transcode.outputs[OutputOf(f)].mtime >= transcode.inputs[f].mtime

\* C17: in continuous mode the step that examines an image whose output
\* exists with mtime >= the input's mtime does not call the encoder,
\* leaves the outputs alone and counts one skip, and the stats returned
\* hold every skip in skipped_files; in one-shot mode the step that
\* examines an image calls the encoder whatever the output is, and
\* skipped_files stays 0.
C17_FreshnessOnlyInWatchMode ==
    [][/\ transcode.phase # "off" =>
             \A f \in InputNames :
                Examines(f) =>
                   IF transcode.mode = "watch"
                   THEN UpToDate(f) =>
                           /\ transcode'.encoded = transcode.encoded
                           /\ transcode'.outputs = transcode.outputs
                           /\ transcode'.stats.compressed_files
                                 = transcode.stats.compressed_files
                           /\ transcode'.cycle_skipped
                                 = transcode.cycle_skipped + 1
                   ELSE /\ f \in transcode'.encoded
                        /\ transcode'.stats.compressed_files
                              + transcode'.stats.error_files
                              = transcode.stats.compressed_files
                                + transcode.stats.error_files + 1
       /\ (transcode'.phase = "returned" /\ transcode'.mode = "watch")
             => transcode'.stats.skipped_files = transcode'.skips
       /\ (transcode'.phase # "off" /\ transcode'.mode = "once")
             => /\ transcode'.stats.skipped_files = 0
                /\ transcode'.skips = 0]_vars

\* C17 witness: a watch run returned after a second cycle that skipped an
\* image the first cycle had encoded.
C17_Witness ==
    /\ transcode.phase = "returned"
    /\ transcode.mode = "watch"
    /\ transcode.cycle = 2
    /\ transcode.stats.compressed_files >= 1
    /\ transcode.stats.skipped_files >= 1
    /\ \E f \in InputNames :
          /\ transcode.inputs[f].ex
          /\ transcode.outputs[OutputOf(f)].ex
          /\ transcode.outputs[OutputOf(f)].mtime = EncodeTime
          /\ transcode.inputs[f].mtime < EncodeTime

\* =========================================================== publish pass
\* sftp_upload.upload_folder on a small output tree: a file in the root, a
\* directory d with a file, and a directory d/e inside d with a file.
UploadFiles == <<"top.jpg", "d/x.jpg", "d/e/y.jpg">>
UploadNames == {UploadFiles[i] : i \in 1..Len(UploadFiles)}
UploadDirs == {"d", "d/e"}

\* The directory of a file and of a directory ("." is local_dir itself).
FileDir(f) ==
    IF f = "top.jpg" THEN "." ELSE IF f = "d/x.jpg" THEN "d" ELSE "d/e"
DirParent(d) == IF d = "d/e" THEN "d" ELSE "."

\* A tree: parents of what exists exist.
WellFormedTree(dirs, files) ==
    /\ \A d \in dirs : DirParent(d) = "." \/ DirParent(d) \in dirs
    /\ \A f \in files : FileDir(f) = "." \/ FileDir(f) \in dirs

\* not os.listdir(dir_path)
IsEmptyDir(dirs, files, d) ==
    /\ \A f \in files : FileDir(f) # d
    /\ \A e \in dirs : DirParent(e) # d

\* A collection that lists local_dir only, without descending.  Not the
\* program; C40 must fail of it.
CollectRootOnly(files, i) ==
    IF "top.jpg" \in files THEN <<"top.jpg">> ELSE <<>>

\* os.walk(local_dir): the files in top-down order.
RECURSIVE Collect(_, _)
Collect(files, i) ==
    IF i > Len(UploadFiles) THEN <<>>
    ELSE (IF UploadFiles[i] \in files THEN <<UploadFiles[i]>> ELSE <<>>)
         \o Collect(files, i + 1)

\* A sweep that visits parents before their children.  Not the program;
\* C19 must fail of it.
SweepTopDown == <<"d", "d/e">>

\* os.walk(local_dir, topdown=False): every directory is tested after the
\* directories inside it.
SweepOrder == <<"d/e", "d">>

\* A deletion that takes every collected file.  Not the program; C18 must
\* fail of it.
CollectedList(pub) == pub.collected

\* for local_file in uploaded_files
DeleteList(pub) == pub.uploaded

\* A pass that connects even when nothing was collected.  Not the
\* program; C22 must fail of it.
AlwaysConnect(c) == "connect"

\* if not files_to_upload: return stats
AfterCollect(c) == IF c = <<>> THEN "returned" ELSE "connect"

\* A failure that ends the batch.  Not the program; C20 must fail of it.
UploadFailureEnds(pub, f) ==
    [pub EXCEPT !.stats.error_files = @ + 1,
                !.failedUp = @ \cup {f},
                !.phase = "returned"]

\* except Exception in the upload loop: error_files += 1, next file.
UploadFailure(pub, f) ==
    [pub EXCEPT !.stats.error_files = @ + 1,
                !.failedUp = @ \cup {f},
                !.idx = @ + 1]

\* stats / total_stats as upload_folder and watch_and_upload start them.
ZeroUploadStats ==
    [uploaded_files |-> 0, deleted_files |-> 0, error_files |-> 0]

PublishInit ==
    /\ lock = [s \in Stages |-> FALSE]
    /\ running = [s \in Stages |-> FALSE]
    /\ stopReq = [s \in Stages |-> FALSE]
    /\ thr = [t \in Threads |-> Free]
    /\ focus = "upload"
    /\ mirror = NoPass
    /\ transcode = NoPass
    /\ stored = NoSettings
    /\ \E del \in BOOLEAN, hasLocal \in BOOLEAN, watch \in BOOLEAN :
       \E dirs \in SUBSET UploadDirs, files \in SUBSET UploadNames :
          /\ WellFormedTree(dirs, files)
          /\ ~hasLocal => dirs = {} /\ files = {}
          /\ publish = [phase |-> IF watch THEN "whead" ELSE "idle",
                        del |-> del, hasLocal |-> hasLocal,
                        dirs |-> dirs, files |-> files,
                        collected |-> <<>>, idx |-> 1,
                        uploaded |-> <<>>, didx |-> 1, sidx |-> 1,
                        stats |-> ZeroUploadStats,
                        failedUp |-> {}, removed |-> {},
                        stopSeen |-> FALSE, delFailed |-> FALSE,
                        watch |-> watch, cycle |-> 0, ticks |-> 0,
                        total |-> ZeroUploadStats, connects |-> 0,
                        raises |-> 0]

\* What a publish action leaves alone besides the stop flag.
publishFrame == <<lock, running, thr, focus, mirror, transcode, stored>>

\* upload_folder up to the connection: a missing folder or a stop seen by
\* the walk returns the zero stats, an empty collection returns before any
\* connection.
PublishCollect ==
    /\ publish.phase = "idle"
    /\ IF ~publish.hasLocal
       THEN publish' = [publish EXCEPT !.phase = "returned"]
       ELSE IF stopReq["upload"]
       THEN publish' = [publish EXCEPT !.phase = "returned",
                                       !.stopSeen = TRUE]
       ELSE LET c == Collect(publish.files, 1) IN
            publish' = [publish EXCEPT
                           !.collected = c,
                           !.phase = AfterCollect(c)]
    /\ UNCHANGED <<stopReq, publishFrame>>

\* _connect_for_upload: the session opens, or the exception leaves
\* upload_folder.
PublishConnect ==
    /\ publish.phase = "connect"
    /\ \/ publish' = [publish EXCEPT !.phase = "raised",
                                       !.connects = @ + 1]
       \/ publish' = [publish EXCEPT !.phase = "upload",
                                       !.connects = @ + 1]
    /\ UNCHANGED <<stopReq, publishFrame>>

\* One turn of the upload loop: the stop test, then upload_file succeeds
\* (the file joins uploaded_files) or raises.  After the loop the deletion
\* starts if it is asked for and something was uploaded.
PublishFile ==
    /\ publish.phase = "upload"
    /\ IF publish.idx > Len(publish.collected) \/ stopReq["upload"]
       THEN publish' = [publish EXCEPT
                           !.stopSeen = @ \/ (publish.idx <= Len(publish.collected)),
                           !.phase = IF publish.del /\ publish.uploaded # <<>>
                                     THEN "delete" ELSE "returned"]
       ELSE LET f == publish.collected[publish.idx] IN
            \/ /\ f \in publish.files
               /\ publish' = [publish EXCEPT
                                 !.stats.uploaded_files = @ + 1,
                                 !.uploaded = Append(@, f),
                                 !.idx = @ + 1]
            \/ publish' = UploadFailure(publish, f)
    /\ UNCHANGED <<stopReq, publishFrame>>

\* One turn of the deletion loop: the stop test, then os.remove succeeds
\* or raises (logged only).
PublishDelete ==
    /\ publish.phase = "delete"
    /\ IF publish.didx > Len(DeleteList(publish)) \/ stopReq["upload"]
       THEN publish' = [publish EXCEPT
                           !.stopSeen = @ \/ (publish.didx <= Len(DeleteList(publish))),
                           !.phase = "sweep"]
       ELSE LET f == DeleteList(publish)[publish.didx] IN
            \/ publish' = [publish EXCEPT
                              !.files = @ \ {f},
                              !.removed = @ \cup {f},
                              !.stats.deleted_files = @ + 1,
                              !.didx = @ + 1]
            \/ publish' = [publish EXCEPT !.delFailed = TRUE,
                                          !.didx = @ + 1]
    /\ UNCHANGED <<stopReq, publishFrame>>

\* One turn of the bottom-up sweep: the stop test, then a directory that
\* lists empty is removed (or os.rmdir raises, logged only).
PublishSweep ==
    /\ publish.phase = "sweep"
    /\ IF publish.sidx > Len(SweepOrder)
       THEN publish' = [publish EXCEPT !.phase = "returned"]
       ELSE IF stopReq["upload"]
       THEN publish' = [publish EXCEPT !.phase = "returned",
                                       !.stopSeen = TRUE]
       ELSE LET d == SweepOrder[publish.sidx] IN
            IF d \in publish.dirs
               /\ IsEmptyDir(publish.dirs, publish.files, d)
            THEN \/ publish' = [publish EXCEPT !.dirs = @ \ {d},
                                               !.sidx = @ + 1]
                 \/ publish' = [publish EXCEPT !.delFailed = TRUE,
                                               !.sidx = @ + 1]
            ELSE publish' = [publish EXCEPT !.sidx = @ + 1]
    /\ UNCHANGED <<stopReq, publishFrame>>

\* stop_upload sets _upload_stop_requested while the pass runs.
PublishStopArrives ==
    /\ publish.phase \in {"idle", "connect", "upload", "delete", "sweep",
                          "whead", "wtick"}
    /\ ~stopReq["upload"]
    /\ stopReq' = [stopReq EXCEPT !["upload"] = TRUE]
    /\ UNCHANGED <<publish, publishFrame>>

\* while not stop_check(): watch_and_upload returns total_stats, or a
\* cycle starts with its probe: a missing folder or a tree without files
\* goes to the tick wait and "continue", otherwise upload_folder is
\* called.
WatchUploadCycle ==
    /\ publish.phase = "whead"
    /\ IF stopReq["upload"]
       THEN publish' = [publish EXCEPT !.phase = "wreturned"]
       ELSE /\ publish.cycle < MaxCycles
            /\ publish' = [publish EXCEPT
                              !.cycle = @ + 1,
                              !.connects = 0,
                              !.collected = <<>>, !.idx = 1,
                              !.uploaded = <<>>, !.didx = 1, !.sidx = 1,
                              !.stats = ZeroUploadStats,
                              !.failedUp = {}, !.removed = {},
                              !.stopSeen = FALSE, !.delFailed = FALSE,
                              !.ticks = WaitTicks(1),
                              !.phase = IF ~publish.hasLocal
                                           \/ publish.files = {}
                                        THEN "wtick" ELSE "idle"]
    /\ UNCHANGED <<stopReq, publishFrame>>

\* upload_folder came back to watch_and_upload: its stats are added to
\* total_stats field by field, or its exception is caught and
\* total_stats['error_files'] += 1; then the wait.
WatchUploadFold ==
    /\ publish.watch
    /\ \/ /\ publish.phase = "returned"
          /\ publish' = [publish EXCEPT
                !.total = [k \in DOMAIN @ |-> @[k] + publish.stats[k]],
                !.ticks = WaitTicks(1),
                !.phase = "wtick"]
       \/ /\ publish.phase = "raised"
          /\ publish' = [publish EXCEPT
                !.total.error_files = @ + 1,
                !.raises = @ + 1,
                !.ticks = WaitTicks(1),
                !.phase = "wtick"]
    /\ UNCHANGED <<stopReq, publishFrame>>

\* One turn of a tick wait: the stop test, then time.sleep(0.1).
WatchUploadTick ==
    /\ publish.phase = "wtick"
    /\ IF stopReq["upload"] \/ publish.ticks = 0
       THEN publish' = [publish EXCEPT !.phase = "whead", !.ticks = 0]
       ELSE publish' = [publish EXCEPT !.ticks = @ - 1]
    /\ UNCHANGED <<stopReq, publishFrame>>

\* The transcode stage writes a file into the watched tree during a wait.
FileAppears ==
    /\ publish.phase = "wtick"
    /\ \E f \in UploadNames \ publish.files :
          publish' = [publish EXCEPT
                         !.hasLocal = TRUE,
                         !.files = @ \cup {f},
                         !.dirs = @ \cup
                            {d \in UploadDirs :
                                d = FileDir(f) \/ d = DirParent(FileDir(f))}]
    /\ UNCHANGED <<stopReq, publishFrame>>

PublishNext ==
    \/ PublishCollect
    \/ PublishConnect
    \/ PublishFile
    \/ PublishDelete
    \/ PublishSweep
    \/ PublishStopArrives
    \/ WatchUploadCycle
    \/ WatchUploadFold
    \/ WatchUploadTick
    \/ FileAppears

PublishSpec == PublishInit /\ [][PublishNext]_vars

UploadedSet == {publish.uploaded[i] : i \in 1..Len(publish.uploaded)}

\* C18: with deletion after upload, a file is removed only if its upload
\* succeeded in this pass; deleted_files never exceeds uploaded_files, and
\* a file whose upload failed is never removed and is still on disk.
C18_OnlyUploadedDeleted ==
    publish.phase # "off" =>
        /\ publish.stats.deleted_files <= publish.stats.uploaded_files
        /\ publish.removed \subseteq UploadedSet
        /\ publish.removed \cap publish.failedUp = {}
        /\ publish.failedUp \subseteq publish.files
        /\ publish.stats.deleted_files = Cardinality(publish.removed)

C18_Witness ==
    /\ publish.phase = "returned"
    /\ publish.del
    /\ publish.removed # {}
    /\ publish.failedUp # {}

\* The pass returned with deletion asked for, no stop seen and no
\* os.remove or os.rmdir failure.
DeletingPassDone ==
    /\ publish.phase = "returned"
    /\ publish.del
    /\ publish.hasLocal
    /\ ~publish.stopSeen
    /\ ~publish.delFailed

NoEmptyDirLeft ==
    \A d \in publish.dirs : ~IsEmptyDir(publish.dirs, publish.files, d)

\* C19 as stated: after such a pass the removed files are exactly the
\* uploaded ones, the failed ones remain, and no empty directory is left
\* under the root.  Fails when no upload succeeded: the sweep is inside
\* "if delete_after_upload and uploaded_files", so a directory that was
\* already empty stays.
C19_NoEmptyDirRemains ==
    DeletingPassDone =>
        /\ publish.removed = UploadedSet
        /\ publish.failedUp \subseteq publish.files
        /\ NoEmptyDirLeft

\* C19 as the code has it: the removed files are exactly the uploaded
\* ones and the failed ones remain; no empty directory is left under the
\* root when at least one upload succeeded.
C19_NoEmptyDirRemainsAfterAnUpload ==
    DeletingPassDone =>
        /\ publish.removed = UploadedSet
        /\ publish.failedUp \subseteq publish.files
        /\ publish.uploaded # <<>> => NoEmptyDirLeft

\* Both nested directories went, the inner one first, while a failed
\* upload kept its file.
C19_Witness ==
    /\ DeletingPassDone
    /\ "d/e/y.jpg" \in publish.removed
    /\ publish.dirs = {}
    /\ publish.failedUp = {"top.jpg"}

\* The collected files the upload loop has attempted so far.
Attempted == {publish.collected[i] : i \in 1..(publish.idx - 1)}

\* C20: every failed upload adds one to error_files and the loop goes on
\* to the next collected file: while the loop runs each attempted file is
\* counted once, as uploaded or as failed, and when the loop was not
\* stopped uploaded_files + error_files is the number of collected files.
C20_UploadFailureCountedBatchGoesOn ==
    publish.phase \in {"upload", "delete", "sweep", "returned"} =>
        /\ publish.stats.error_files = Cardinality(publish.failedUp)
        /\ publish.stats.uploaded_files = Len(publish.uploaded)
        /\ publish.failedUp \cup UploadedSet = Attempted
        /\ publish.failedUp \cap UploadedSet = {}
        /\ publish.stats.uploaded_files + publish.stats.error_files
              = publish.idx - 1
        /\ (publish.phase # "upload" /\ ~publish.stopSeen) =>
              publish.stats.uploaded_files + publish.stats.error_files
                 = Len(publish.collected)

\* The first collected file failed and a later one was uploaded all the
\* same.
C20_Witness ==
    /\ publish.phase = "returned"
    /\ ~publish.stopSeen
    /\ Len(publish.collected) = 3
    /\ publish.failedUp = {"top.jpg"}
    /\ publish.stats.uploaded_files = 2
    /\ publish.stats.error_files = 1

\* ------------------------------------ further claims on the transcode
\* The step is the walk of a pass handling one file and the handling
\* failed: the freshness test raised (the pass is left by the exception)
\* or the encoder was called without producing a compressed file.
FileFailure ==
    /\ transcode.phase = "file"
    /\ \/ transcode'.phase = "escaped"
       \/ /\ transcode'.encoded # transcode.encoded
          /\ transcode'.stats.compressed_files
                = transcode.stats.compressed_files

\* C21: in a one-shot pass or a watch cycle a failure on one image,
\* raised by the freshness test or by the encoder, adds one to error_files
\* and the walk goes on with the next file.
C21_FailureCountedWalkGoesOn ==
    [][FileFailure =>
          /\ transcode'.stats.error_files = transcode.stats.error_files + 1
          /\ transcode'.phase = "file"
          /\ transcode'.idx = transcode.idx + 1]_vars

\* ---------------------------------------- further claims on the publish
\* C22: a publish cycle opens at most one connection, and opens it only
\* after collecting at least one file of an existing tree; a watch cycle
\* that finds the tree missing or without files goes to the tick wait,
\* and a tick wait never connects: it ticks on or goes back to the head
\* of the loop.
C22_OneConnectionNoneWithoutFiles ==
    [][publish.phase # "off" =>
          /\ publish'.connects <= 1
          /\ publish'.connects > publish.connects =>
                /\ publish.hasLocal
                /\ publish.collected # <<>>
                /\ \A i \in 1..Len(publish.collected) :
                      publish.collected[i] \in publish.files
          /\ (/\ publish.phase = "whead"
              /\ publish'.phase # "whead"
              /\ ~stopReq["upload"]
              /\ ~publish.hasLocal \/ publish.files = {}) =>
                /\ publish'.phase = "wtick"
                /\ publish'.connects = 0
          /\ publish.phase = "wtick" =>
                /\ publish'.phase \in {"wtick", "whead"}
                /\ publish'.connects = publish.connects
                /\ (publish'.phase = "whead" /\ publish.ticks > 0)
                      => stopReq["upload"]]_vars

\* A watch run waited through a cycle without files, a file appeared, and
\* the next cycle connected once.
C22_Witness ==
    /\ publish.watch
    /\ publish.cycle = 2
    /\ publish.connects = 1
    /\ publish.phase = "upload"
    /\ publish.total = ZeroUploadStats
    /\ publish.raises = 0
    /\ Len(publish.collected) = 1

\* =================================================== the stages together
\* The requests of one behaviour address any of the three stages.
CrossInit ==
    /\ lock = [s \in Stages |-> FALSE]
    /\ running = [s \in Stages |-> FALSE]
    /\ stopReq = [s \in Stages |-> FALSE]
    /\ thr = [t \in Threads |-> Free]
    /\ focus = "sync"
    /\ mirror = NoPass
    /\ transcode = NoPass
    /\ publish = NoPass
    /\ stored \in StoredValues

CrossNext ==
    \/ \E s \in Stages : RunTrigger(s)
    \/ \E s \in Stages : StopRequest(s)
    \/ ResetRequest
    \/ SaveSettings
    \/ \E t \in Threads : ThreadStep(t)

CrossSpec == CrossInit /\ [][CrossNext]_vars

\* The flags and the lock of stage s.
StageState(s) == <<running[s], stopReq[s], lock[s]>>

C24_MissingConfigNotStarted ==
    [][\A t \in Threads :
          ~(thr[t].pc = "load" /\ thr'[t].pc = "none")]_vars

\* C25: a worker reads the settings once, when its run starts, and keeps
\* that snapshot until it returns: the interval it loads is the stored
\* one at that moment, no later step of the run changes it whatever is
\* saved meanwhile, and every wait of the run is as long as the snapshot
\* says.
C25_SnapshotPerRun ==
    [][\A t \in Threads :
          /\ (thr[t].pc = "load" /\ Stepped(t) /\ thr'[t].pc # "none") =>
                /\ stored.ok
                /\ thr'[t].interval = stored.interval
          /\ (thr[t].pc \notin {"none", "load"} /\ thr'[t].pc # "none") =>
                thr'[t].interval = thr[t].interval
          /\ (thr[t].pc # "wait" /\ thr'[t].pc = "wait") =>
                thr'[t].ticks = thr[t].interval * TicksPerSecond]_vars

\* A continuous worker waits between two cycles by the interval it read
\* while the stored settings meanwhile ask for a single pass.
C25_Witness ==
    \E t \in Threads :
        /\ thr[t].pc = "wait"
        /\ thr[t].interval = 1
        /\ thr[t].ticks = 1
        /\ stored = [ok |-> TRUE, interval |-> 0]

\* C26: when the force-unlock of the mirror stage has answered, the stage
\* is idle to an observer: running false, stopRequested false and the lock
\* free, from whatever state the operation was called in.
C26_ResetLeavesIdle ==
    [][\A t \in Threads :
          (thr[t].pc = "reset_stop" /\ Stepped(t)) =>
             /\ ~running'["sync"]
             /\ ~stopReq'["sync"]
             /\ ~lock'["sync"]]_vars

\* ------------------------------------------- claims on the two together
\* C27: a watch cycle that starts after the mirror stage finished copying
\* a file re-encodes it: the step that examines an image holding a
\* finished copy whose output is missing or was made from other content
\* calls the encoder, whatever the remote mtime is and whether or not an
\* earlier cycle saw the file half written.
C27_CopiedFileReencoded ==
    [][transcode.phase # "off" =>
          \A f \in InputNames :
             (/\ transcode.mode = "watch"
              /\ Examines(f)
              /\ transcode.inputs[f].content = "new"
              /\ transcode.outputs[OutputOf(f)].content # "new")
                => f \in transcode'.encoded]_vars

\* C28: the stats a watch run returns are the sums of its cycles'
\* counters; for the transcode stage the returned total_files is the
\* number of images handled over all cycles, that is compressed_files +
\* skipped_files + error_files.
C28_WatchTotalFilesAddsUp ==
    (transcode.phase = "returned" /\ transcode.mode = "watch") =>
        transcode.stats.total_files
           = transcode.stats.compressed_files
             + transcode.stats.skipped_files
             + transcode.stats.error_files

\* ------------------------------------------ further claims on the mirror
\* The listing of "sub" failed while that of the root succeeded: the pass
\* has the entry of "sub" but not the file below it.
SubListingFailed ==
    /\ mirror.phase \in {"item", "precopy", "chunk", "stamp", "return"}
    /\ ~mirror.raised
    /\ "sub" \in Listed
    /\ mirror.rfiles["sub/b.txt"].ex
    /\ "sub/b.txt" \notin Listed

\* C29: when the listing of a remote subdirectory fails, the listing holds
\* the subdirectory's own entry and every entry outside it, nothing below
\* it, and sync_once does not raise; a pass that goes through without an
\* item failure has created the subdirectory and handled the sibling
\* file once, as a copy with the remote size and mtime or as a skip.
C29_FailedSubtreeOnlyIsMissing ==
    SubListingFailed =>
        /\ mirror.rfiles["a.txt"].ex => "a.txt" \in Listed
        /\ mirror.copies["sub/b.txt"] = 0 /\ mirror.skips["sub/b.txt"] = 0
        /\ CleanPass =>
              /\ "sub" \in mirror.ldirs
              /\ mirror.rfiles["a.txt"].ex =>
                    /\ mirror.copies["a.txt"] + mirror.skips["a.txt"] = 1
                    /\ mirror.lfiles["a.txt"].ex
                    /\ mirror.lfiles["a.txt"].size
                          = mirror.rfiles["a.txt"].size
                    /\ mirror.lfiles["a.txt"].mtime \div 2
                          = mirror.rfiles["a.txt"].mtime

\* The listing of "sub" failed before the root listed a.txt, and the pass
\* went through: it made the directory and copied a.txt.
C29_Witness ==
    /\ SubListingFailed
    /\ CleanPass
    /\ mirror.items = <<"sub", "a.txt">>
    /\ mirror.copies["a.txt"] = 1
    /\ mirror.dirs_created = 1

\* C30: in the listing every directory entry comes before the entries
\* below it; the pass takes the entries one by one in listing order
\* (every step stays on its entry or moves to the next, and a file is
\* written or counted only while it is the current entry); and while a
\* file is being copied its directory exists locally.
C30_DirectoryBeforeItsFiles ==
    [][mirror.phase \in {"item", "precopy", "chunk", "stamp"} =>
          /\ \A i \in 1..Len(mirror.items) :
                Parent(mirror.items[i]) # "." =>
                   \E j \in 1..(i - 1) :
                      mirror.items[j] = Parent(mirror.items[i])
          /\ mirror'.items = mirror.items
          /\ mirror'.idx \in {mirror.idx, mirror.idx + 1}
          /\ \A p \in Files :
                (\/ mirror'.lfiles[p] # mirror.lfiles[p]
                 \/ mirror'.copies[p] # mirror.copies[p]
                 \/ mirror'.skips[p] # mirror.skips[p])
                   => /\ mirror.idx <= Len(mirror.items)
                      /\ mirror.items[mirror.idx] = p
          /\ mirror'.phase \in {"chunk", "stamp"} =>
                Parent(mirror'.items[mirror'.idx])
                   \in mirror'.ldirs \cup {"."}]_vars

\* The file under "sub" is being written after the directory entry made
\* the local directory.
C30_Witness ==
    /\ mirror.phase = "stamp"
    /\ mirror.items = <<"sub", "sub/b.txt">>
    /\ mirror.idx = 2
    /\ mirror.dirs_created = 1
    /\ mirror.lfiles["sub/b.txt"].ex
    /\ "sub" \in mirror.ldirs

\* ================================================= the output path alone
\* A one-shot walk over two files of the input folder, without encoder
\* failures: which output path each image is written to.
PathInit ==
    /\ lock = [s \in Stages |-> FALSE]
    /\ running = [s \in Stages |-> FALSE]
    /\ stopReq = [s \in Stages |-> FALSE]
    /\ thr = [t \in Threads |-> Free]
    /\ focus = "compress"
    /\ mirror = NoPass
    /\ publish = NoPass
    /\ stored = NoSettings
    /\ \E a \in PathNames : \E b \in PathNames \ {a} :
          transcode = [phase |-> "paths", walk |-> <<a, b>>, idx |-> 1,
                       total_files |-> 0, written |-> {}]

\* for filename in files: a file that is not an image is passed over;
\* an image is counted and compress_image saves it at its output path.
PathFile ==
    /\ transcode.phase = "paths"
    /\ transcode.idx <= Len(transcode.walk)
    /\ LET f == transcode.walk[transcode.idx] IN
       IF ~is_image_file(f)
       THEN transcode' = [transcode EXCEPT !.idx = @ + 1]
       ELSE transcode' = [transcode EXCEPT
                             !.idx = @ + 1,
                             !.total_files = @ + 1,
                             !.written = @ \cup {<<OutputOf(f), f>>}]
    /\ UNCHANGED <<stopReq, transcodeFrame>>

PathSpec == PathInit /\ [][PathFile]_vars

\* The files the walk has passed so far.
PathsDone == {transcode.walk[i] : i \in 1..(transcode.idx - 1)}

\* f's extension, as written, is one of the image types in either case.
RecognizedSuffix(f) ==
    PathParts(f).suffix \in {".png", ".PNG", ".jpg", ".jpeg"}

\* C31: every file with a recognized image extension is written at its
\* own relative path with the extension replaced by ".jpg" (directory and
\* stem kept), and a file with any other extension, or none, is neither
\* written nor counted.
C31_OutputPathIsJpgOfSamePath ==
    transcode.phase = "paths" =>
        /\ \A f \in PathsDone :
              IF RecognizedSuffix(f)
              THEN \E w \in transcode.written :
                      /\ w[2] = f
                      /\ w[1] = PathParts(f).dir \o PathParts(f).stem
                                   \o ".jpg"
              ELSE \A w \in transcode.written : w[2] # f
        /\ \A w \in transcode.written :
              /\ w[2] \in PathsDone
              /\ w[1] = PathParts(w[2]).dir \o PathParts(w[2]).stem
                           \o ".jpg"
        /\ transcode.total_files
              = Cardinality({f \in PathsDone : RecognizedSuffix(f)})

\* An image in a subdirectory with an upper-case sibling were written,
\* each under its own path.
C31_Witness ==
    /\ transcode.phase = "paths"
    /\ transcode.walk = <<"d/photo.png", "scan.PNG">>
    /\ transcode.written = {<<"d/photo.jpg", "d/photo.png">>,
                            <<"scan.jpg", "scan.PNG">>}
    /\ transcode.total_files = 2

\* C38: two different images of one walk are never written to the same
\* output path.
C38_DistinctInputsDistinctOutputs ==
    transcode.phase = "paths" =>
        \A v \in transcode.written, w \in transcode.written :
            v[2] # w[2] => v[1] # w[1]

\* ----------------------------------------- claims on an interrupted copy
\* C32: a file gets the remote mtime and is counted in copied only after
\* its transfer is complete; a copy that a stop cut short is neither
\* stamped nor counted.
C32_AbortedCopyNotCounted ==
    [][(mirror.phase = "stamp" /\ mirror'.phase = "item") =>
          LET p == mirror.items[mirror.idx] IN
          (\/ mirror'.copied # mirror.copied
           \/ mirror'.copies[p] # mirror.copies[p]
           \/ mirror'.lfiles[p].mtime # mirror.lfiles[p].mtime)
             => mirror.lfiles[p].size = mirror.rfiles[p].size]_vars

\* C33: whatever earlier passes were cut short by a stop or by a failure,
\* a pass skips a file only if the local file holds every chunk of the
\* remote one; a truncated copy, stamped or not, is never skipped.
C33_SkippedFileIsWhole ==
    [][\A p \in Files :
          (mirror.phase # "off" /\ mirror'.skips[p] > mirror.skips[p])
             => /\ mirror.lfiles[p].ex
                /\ mirror.lfiles[p].size = mirror.rfiles[p].size
                /\ mirror'.lfiles[p] = mirror.lfiles[p]]_vars

\* The pass before was cut short and left sub/b.txt truncated with the
\* remote mtime; this pass has skipped a.txt and is about to copy
\* sub/b.txt again.
C33_Witness ==
    /\ mirror.phase = "precopy"
    /\ mirror.prevRan /\ ~mirror.prevClean
    /\ mirror.items[mirror.idx] = "sub/b.txt"
    /\ mirror.skips["a.txt"] = 1
    /\ mirror.index["sub/b.txt"].ex
    /\ mirror.index["sub/b.txt"].size < mirror.rfiles["sub/b.txt"].size
    /\ mirror.index["sub/b.txt"].mtime
          = Stamped(mirror.rfiles["sub/b.txt"].mtime)

\* ----------------------------------- further claims on the supervisor 2
\* C34: a stage's stop flag is set only while the stage runs: it is never
\* set when the running flag is clear and no worker of the stage is
\* between its lock.acquire and its lock.release.
C34_StopFlagOnlyWhileRunning ==
    \A s \in Stages :
        stopReq[s] =>
            \/ running[s]
            \/ \E t \in Threads : thr[t].stage = s /\ thr[t].pc \in HeldPcs

\* C35: while a stage's running flag is set its lock is held and a worker
\* of the stage is between lock.acquire and lock.release; and while a
\* worker executes the stage body (its pass or its watch loop) the running
\* flag is set, so the status never shows idle during a pass.
C35_RunningMeansWorkerHoldsLock ==
    \A s \in Stages :
        /\ running[s] =>
              /\ lock[s]
              /\ \E t \in Threads :
                    thr[t].stage = s /\ thr[t].pc \in HeldPcs
        /\ (\E t \in Threads :
               thr[t].stage = s /\ thr[t].pc \in LoopPcs \cup {"setup"})
              => running[s]

\* C36: a stop request for a stage is not turned down as idle while a
\* worker of that stage is in its watch loop.
C36_StopAcceptedWhileWatching ==
    [][\A t \in Threads :
          (thr[t].pc = "none" /\ thr'[t].pc = "stop_err") =>
             ~\E u \in Threads :
                 /\ thr[u].stage = thr'[t].stage
                 /\ thr[u].interval > 0
                 /\ thr[u].pc \in LoopPcs]_vars

\* C37: the lock.release of a worker's exit clean-up acts on the hold that
\* worker acquired: it is never attempted on a lock that is free.
C37_CleanupReleasesOwnHold ==
    [][\A t \in Threads :
          (thr[t].pc = "fin_release" /\ Stepped(t)) =>
             lock[thr[t].stage]]_vars

\* ------------------------------------ the transcode stage at its fixed point
\* C39: with the input tree unchanged since the run started, every cycle
\* after a complete first cycle without errors only skips: the step that
\* examines an image calls no encoder and counts a skip, whatever the
\* input's mtime is relative to the clock.
C39_LaterCyclesOnlySkip ==
    [][(/\ transcode.phase # "off"
        /\ transcode.mode = "watch"
        /\ transcode.cycle >= 2
        /\ transcode.stats.error_files = 0) =>
          \A f \in InputNames :
             Examines(f) =>
                /\ transcode'.encoded = transcode.encoded
                /\ transcode'.stats.compressed_files
                      = transcode.stats.compressed_files
                /\ transcode'.cycle_skipped
                      = transcode.cycle_skipped + 1]_vars

\* ------------------------------------------- continuous publish, no deletion
\* C40 as stated: without deletion, every cycle of a continuous publish run
\* in which no upload fails adds the number of files in the tree to
\* total_stats['uploaded_files'].
C40_EveryCycleUploadsWholeTree ==
    [][(/\ publish.phase = "returned"
        /\ publish.watch
        /\ ~publish.del
        /\ publish.failedUp = {}
        /\ publish'.phase = "wtick") =>
          publish'.total.uploaded_files
             = publish.total.uploaded_files + Cardinality(publish.files)]_vars

\* C40, amended: without deletion, every cycle of a continuous publish run
\* whose upload loop runs to its end (no stop request cuts it short) and in
\* which no upload fails uploads every file of the tree, whether or not an
\* earlier cycle uploaded it, and adds their number to
\* total_stats['uploaded_files'].
C40_CompleteCycleUploadsWholeTree ==
    [][(/\ publish.phase = "returned"
        /\ publish.watch
        /\ ~publish.del
        /\ publish.failedUp = {}
        /\ ~publish.stopSeen
        /\ publish'.phase = "wtick") =>
          /\ UploadedSet = publish.files
          /\ Len(publish.uploaded) = Cardinality(publish.files)
          /\ publish'.total.uploaded_files
                = publish.total.uploaded_files
                     + Cardinality(publish.files)]_vars

\* The second cycle has uploaded the same three files again.
C40_Witness ==
    /\ publish.phase = "wtick"
    /\ publish.watch
    /\ ~publish.del
    /\ publish.cycle = 2
    /\ publish.files = UploadNames
    /\ UploadedSet = UploadNames
    /\ publish.total.error_files = 0
    /\ publish.total.uploaded_files = 2 * Cardinality(UploadNames)
====
